---- MODULE Spec2Model ----
(***************************************************************************)
(* Scripted timeline playback in the aegis website mockups:                *)
(*   AnimatedDbDemo      (site/src/components/developers/AnimatedDbDemo)   *)
(*   DesktopPreview      (site/src/components/desktop-preview)             *)
(*   InteractiveTerminal (state-machine effect driven by phase)            *)
(* Every setTimeout is a record in a timer list; an await on a timed       *)
(* promise is the timer that resumes the async function, and the record    *)
(* carries the locals (i, j) the continuation closes over.                 *)
(***************************************************************************)
EXTENDS Integers, Sequences, FiniteSets, TLC

\* ------------------------------------------------------------------ bounds
\* number of characters of targetQuery the type step reveals
QueryLen == 3
\* number of Run-button completion timers that may be pending together
MaxRunTimers == 1
\* number of DEMO_COMMANDS entries the terminal plays
NumCommands == 2

\* ------------------------------------------------------- AnimatedDbDemo data
Undefined == "undefined"
Null == "null"
NoCoord == -1
NullTime == -1
NullIndex == -1
NaN == -2

Step(a, t, x, y, d) ==
    [action |-> a, target |-> t, clickX |-> x, clickY |-> y, delay |-> d]

animationSequence ==
    << Step("wait", Undefined, NoCoord, NoCoord, 500),
       Step("click", Undefined, 10, 20, 400),
       Step("expand", "public", NoCoord, NoCoord, 300),
       Step("wait", Undefined, NoCoord, NoCoord, 200),
       Step("click", Undefined, 12, 25, 400),
       Step("selectTable", "users", NoCoord, NoCoord, 400),
       Step("wait", Undefined, NoCoord, NoCoord, 600),
       Step("click", Undefined, 5, 25, 400),
       Step("expand", "users", NoCoord, NoCoord, 300),
       Step("wait", Undefined, NoCoord, NoCoord, 400),
       Step("click", Undefined, 14, 35, 400),
       Step("select", "users/email", NoCoord, NoCoord, 300),
       Step("wait", Undefined, NoCoord, NoCoord, 800),
       Step("type", Undefined, NoCoord, NoCoord, 50),
       Step("wait", Undefined, NoCoord, NoCoord, 300),
       Step("click", Undefined, 52, 12, 400),
       Step("run", Undefined, NoCoord, NoCoord, 500),
       Step("showResults", Undefined, NoCoord, NoCoord, 100),
       Step("wait", Undefined, NoCoord, NoCoord, 1500),
       Step("click", Undefined, 65, 60, 400),
       Step("expandRow", "2", NoCoord, NoCoord, 100),
       Step("wait", Undefined, NoCoord, NoCoord, 3000) >>

\* the sequence runAnimation iterates over: animationSequence in the
\* component, a short sequence with one malformed step where the switch is
\* examined on steps the authored sequence does not contain
VARIABLE sequence

\* sequence.length; the loop index i is 0-based as in the source
SeqLength == Len(sequence)
StepAt(i) == sequence[i + 1]

\* the leading characters of targetQuery ("SELECT id, name, ...")
QueryText == << "S", "E", "L", "E", "C", "T", " ", "i", "d", "," >>
targetQuery == SubSeq(QueryText, 1, QueryLen)

\* targetQuery.slice(0, j)
Slice(s, j) == SubSeq(s, 1, IF j < Len(s) THEN j ELSE Len(s))

\* ids of the five mockResults rows
mockResults == << 1, 2, 3, 4, 5 >>

\* names of mockSchema[0].children (three tables and one view)
TableNames == { "users", "orders", "products", "active_users" }
\* mockSchema[0].children?.find((t) => t.name === name)
FindTable(name) == IF name \in TableNames THEN name ELSE Undefined

\* parseInt(step.target, 10) on the targets a row index is written with
ParseInt(s) ==
    CASE s = "0" -> 0 [] s = "1" -> 1 [] s = "2" -> 2 [] s = "3" -> 3
      [] s = "4" -> 4 [] s = "5" -> 5 [] s = "6" -> 6 [] s = "7" -> 7
      [] s = "8" -> 8 [] s = "9" -> 9 [] OTHER -> NaN

\* tree nodes the user clicks on, with the ancestors that must be expanded
\* for the node to be rendered, and whether the node has children
TreeNodes == { "public", "users", "email" }
Ancestors(name) ==
    CASE name = "public" -> {}
      [] name = "users" -> { "public" }
      [] OTHER -> { "public", "users" }
HasChildren(name) == name \in { "public", "users" }

\* result rows the user clicks on (0-based idx of results.map)
UserRows == { 0 }
\* executionTime in tenths of a millisecond; Math.random() * 50 + 10
RandomTimes == { 100 }
ScriptTime == 234

\* -------------------------------------------------------------- variables
VARIABLES
    \* AnimatedDbDemo useState values
    expandedNodes, selectedNode, selectedTable, query, isRunning, results,
    executionTime, animationStep, isAnimating, clickIndicator,
    expandedRowIndex,
    \* the isAnimating the effect closure captured when it ran
    closureIsAnimating,
    \* pending setTimeout calls of AnimatedDbDemo, in creation order
    dbTimers,
    \* indices of the non-wait steps dispatched in the current pass
    dbApplied,
    \* whether runAnimation() has been called again by reset-and-loop
    dbLooped,
    dbMounted,
    \* DesktopPreview: the DemoState, the pending delay() timers, mounted
    state, deskTimers, deskMounted,
    \* InteractiveTerminal useState values, the pending phase timers, mounted
    phase, history, currentInput, termTimers, termMounted,
    \* UpdatesAppMockup: its state (named state in the source), progress,
    \* the active intervals and pending handleRefresh timers
    updState, progress, updTimers,
    \* InteractiveDbView: isRunning, results, executionTime (prefixed, the
    \* names are taken by AnimatedDbDemo), editMode, activeConnection and
    \* the pending completion timers of runQuery
    viewIsRunning, viewResults, viewExecutionTime, editMode,
    activeConnection, viewTimers,
    \* InteractiveMacropad useState values and its pending release timers
    buttons, currentPage, pressedIndex, lastAction, padTimers,
    \* StatsCounter: isVisible; per StatCard its count, the number of
    \* increments added to its local current, and the active intervals
    isVisible, count, current, statTimers

dbSurface ==
    << expandedNodes, selectedNode, selectedTable, query, isRunning, results,
       executionTime, expandedRowIndex, clickIndicator >>
dbVars ==
    << expandedNodes, selectedNode, selectedTable, query, isRunning, results,
       executionTime, animationStep, isAnimating, clickIndicator,
       expandedRowIndex, closureIsAnimating, dbTimers, dbApplied, dbLooped,
       dbMounted, sequence >>

deskVars == << state, deskTimers, deskMounted >>
termVars == << phase, history, currentInput, termTimers, termMounted >>

updVars == << updState, progress, updTimers >>
\* the stand-alone widgets
viewVars ==
    << viewIsRunning, viewResults, viewExecutionTime, editMode,
       activeConnection, viewTimers >>
padVars == << buttons, currentPage, pressedIndex, lastAction, padTimers >>
statVars == << isVisible, count, current, statTimers >>
widgetVars == << updVars, viewVars, padVars, statVars >>

vars == << dbVars, deskVars, termVars, widgetVars >>

\* ------------------------------------------------------------ timer lists
Timer(k, ms, i, j) == [kind |-> k, rem |-> ms, i |-> i, j |-> j]

ChainKinds == { "step", "char", "loop" }

\* index of the timer that fires next: earliest deadline, oldest first
DueIndex(ts) ==
    CHOOSE k \in 1..Len(ts) :
        /\ \A m \in 1..Len(ts) : ts[k].rem <= ts[m].rem
        /\ \A m \in 1..(k - 1) : ts[m].rem > ts[k].rem

\* the timers left after timer k has fired, its waiting time elapsed for all
AfterFire(ts, k) ==
    LET rest == SubSeq(ts, 1, k - 1) \o SubSeq(ts, k + 1, Len(ts))
    IN  [m \in 1..Len(rest) |-> [rest[m] EXCEPT !.rem = @ - ts[k].rem]]

CountKind(ts, kinds) == Cardinality({ m \in 1..Len(ts) : ts[m].kind \in kinds })

\* ------------------------------------------------ AnimatedDbDemo: the script
\* mutant: the indicator is hidden after 6000 ms
HideDelayLong == 10 * 600

HideDelay == 600
LoopPause == 2000
RunDelay == 500

\* mutant: the loop index advances by two
NextIndexSkips(i) == i + 2

\* i++ of the for loop over animationSequence
NextIndex(i) == i + 1

\* head of the for loop at index i: the bound and the isAnimating test the
\* closure sees decide whether step i is awaited
LoopHeadRuns(i) == i < SeqLength /\ closureIsAnimating

\* the timer the chain waits on after reaching the loop head at index i:
\* the delay of step i, or after the loop the pause before reset-and-loop
LoopHeadTimers(i) ==
    IF LoopHeadRuns(i) THEN << Timer("step", StepAt(i).delay, i, 0) >>
    ELSE IF closureIsAnimating THEN << Timer("loop", LoopPause, 0, 0) >>
    ELSE << >>

\* setAnimationStep(i) at the loop head
LoopHeadStep(i) == IF LoopHeadRuns(i) THEN i ELSE animationStep

\* mutant: the character loop stops one short of the whole string
TypeHeadRunsShort(j) == j < Len(targetQuery) /\ closureIsAnimating

\* head of the character loop of the type step at index j
TypeHeadRuns(j) == j <= Len(targetQuery) /\ closureIsAnimating

\* mutant: the character loop is started without being awaited, the for
\* loop goes on to the next step at once
TypeHeadTimersNotAwaited(i, j) ==
    IF TypeHeadRuns(j)
    THEN << Timer("char", StepAt(i).delay, i, j) >> \o
         (IF j = 0 THEN LoopHeadTimers(NextIndex(i)) ELSE << >>)
    ELSE << >>

\* the chain after the character loop of step i reached index j
TypeHeadTimers(i, j) ==
    IF TypeHeadRuns(j) THEN << Timer("char", StepAt(i).delay, i, j) >>
    ELSE LoopHeadTimers(NextIndex(i))

\* mutant: the character loop reveals one character less than it should
TypeHeadQueryOneBehind(j) ==
    IF TypeHeadRuns(j) THEN Slice(targetQuery, j - 1) ELSE query

\* setQuery(targetQuery.slice(0, j)) at the head of the character loop
TypeHeadQuery(j) == IF TypeHeadRuns(j) THEN Slice(targetQuery, j) ELSE query

TypeHeadStep(i, j) ==
    IF TypeHeadRuns(j) THEN animationStep ELSE LoopHeadStep(NextIndex(i))

\* mutant: the indicator is shown for any step that carries coordinates
ShowsIndicatorAnyKind(step) == step.clickX # NoCoord /\ step.clickY # NoCoord

\* the click case shows the indicator only when both coordinates are given
ShowsIndicator(step) ==
    step.action = "click" /\ step.clickX # NoCoord /\ step.clickY # NoCoord

\* mutant: the click step shows the indicator and arms no timer
HideTimersNone(step) == << >>

\* the hide timer a click step creates
HideTimers(step) ==
    IF ShowsIndicator(step) THEN << Timer("hide", HideDelay, 0, 0) >> ELSE << >>

\* mutant: showResults publishes the results and leaves the busy flag up
IsRunningAfterStuck(a) == IF a = "run" THEN TRUE ELSE isRunning

\* setIsRunning in the cases run and showResults
IsRunningAfter(a) ==
    IF a = "run" THEN TRUE
    ELSE IF a = "showResults" THEN FALSE
    ELSE isRunning

DbDue == dbTimers[DueIndex(dbTimers)]
DbRest == AfterFire(dbTimers, DueIndex(dbTimers))

\* the delay of step i has elapsed: switch (step.action), then the next
\* iteration of the loop up to its await
DbStepFire ==
    /\ dbTimers # << >>
    /\ DbDue.kind = "step"
    /\ LET i == DbDue.i
           step == StepAt(i)
           a == step.action
           table == FindTable(step.target)
       IN  /\ clickIndicator' =
                  IF ShowsIndicator(step)
                  THEN [x |-> step.clickX, y |-> step.clickY, visible |-> TRUE]
                  ELSE clickIndicator
           /\ expandedNodes' =
                  IF a = "expand" THEN expandedNodes \cup { step.target }
                  ELSE expandedNodes
           /\ selectedTable' =
                  IF a = "selectTable" /\ table # Undefined THEN table
                  ELSE selectedTable
           /\ selectedNode' =
                  IF a = "selectTable" /\ table # Undefined THEN step.target
                  ELSE IF a = "select" THEN step.target
                  ELSE selectedNode
           /\ query' = IF a = "type" THEN TypeHeadQuery(0) ELSE query
           /\ isRunning' = IsRunningAfter(a)
           /\ executionTime' =
                  IF a = "showResults" THEN ScriptTime ELSE executionTime
           /\ results' = IF a = "showResults" THEN mockResults ELSE results
           /\ expandedRowIndex' =
                  IF a = "expandRow" /\ step.target # Undefined
                  THEN ParseInt(step.target)
                  ELSE expandedRowIndex
           /\ dbApplied' = IF a = "wait" THEN dbApplied ELSE Append(dbApplied, i)
           /\ animationStep' =
                  IF a = "type" THEN TypeHeadStep(i, 0)
                  ELSE LoopHeadStep(NextIndex(i))
           /\ dbTimers' =
                  DbRest \o HideTimers(step) \o
                  (IF a = "type" THEN TypeHeadTimers(i, 0)
                   ELSE LoopHeadTimers(NextIndex(i)))
    /\ UNCHANGED << isAnimating, closureIsAnimating,
                    sequence, dbMounted, dbLooped >>

\* the per-character delay has elapsed: j++ and the next character
DbCharFire ==
    /\ dbTimers # << >>
    /\ DbDue.kind = "char"
    /\ LET i == DbDue.i
           j == DbDue.j + 1
       IN  /\ query' = TypeHeadQuery(j)
           /\ animationStep' = TypeHeadStep(i, j)
           /\ dbTimers' = DbRest \o TypeHeadTimers(i, j)
    /\ UNCHANGED << expandedNodes, selectedNode, selectedTable, isRunning,
                    results, executionTime, clickIndicator, expandedRowIndex,
                    isAnimating, closureIsAnimating,
                    sequence, dbApplied, dbMounted,
                    dbLooped >>

\* mutant: reset-and-loop starts two chains
RunAnimationTwice == LoopHeadTimers(0) \o LoopHeadTimers(0)

\* mutant: reset-and-loop resets but does not call runAnimation() again
RunAnimationNever == << >>

\* the chain a call of runAnimation() starts
RunAnimationTimers == LoopHeadTimers(0)

\* the pause after the last step has elapsed: reset and loop
DbLoopFire ==
    /\ dbTimers # << >>
    /\ DbDue.kind = "loop"
    /\ expandedNodes' = {}
    /\ selectedNode' = Null
    /\ selectedTable' = Null
    /\ query' = << >>
    /\ results' = << >>
    /\ executionTime' = NullTime
    /\ isRunning' = FALSE
    /\ clickIndicator' = [x |-> 0, y |-> 0, visible |-> FALSE]
    /\ expandedRowIndex' = NullIndex
    /\ dbApplied' = << >>
    /\ animationStep' = LoopHeadStep(0)
    /\ dbTimers' = DbRest \o RunAnimationTimers
    /\ dbLooped' = TRUE
    /\ UNCHANGED << isAnimating, closureIsAnimating, sequence, dbMounted >>

\* the 600 ms timer of a click step hides the indicator
DbHideFire ==
    /\ dbTimers # << >>
    /\ DbDue.kind = "hide"
    /\ clickIndicator' = [clickIndicator EXCEPT !.visible = FALSE]
    /\ dbTimers' = DbRest
    /\ UNCHANGED << expandedNodes, selectedNode, selectedTable, query,
                    isRunning, results, executionTime, animationStep,
                    isAnimating, expandedRowIndex, closureIsAnimating, sequence,
                    dbApplied, dbMounted, dbLooped >>

\* ---------------------------------------------- AnimatedDbDemo: the user
\* mutant: the handlers flip isAnimating
CancelFlips == ~isAnimating

\* the argument of setIsAnimating in the user handlers
CancelValue == FALSE

\* a tree row is rendered when all its ancestors are expanded
Rendered(name) == Ancestors(name) \subseteq expandedNodes

\* mutant: handleToggle cancels and leaves the set as it is
ToggleSwallowed(nodes, name) == nodes

\* handleToggle(name) on a set of expanded names
Toggle(nodes, name) ==
    IF name \in nodes THEN nodes \ { name } ELSE nodes \cup { name }

\* TreeNode onClick: handleToggle when the node has children, handleSelect
TreeNodeClick(name) ==
    /\ dbMounted
    /\ Rendered(name)
    /\ isAnimating' = CancelValue
    /\ expandedNodes' =
           IF HasChildren(name) THEN Toggle(expandedNodes, name)
           ELSE expandedNodes
    /\ selectedNode' = name
    /\ selectedTable' =
           IF FindTable(name) # Undefined THEN FindTable(name)
           ELSE selectedTable
    /\ UNCHANGED << query, isRunning, results, executionTime, animationStep,
                    clickIndicator, expandedRowIndex, closureIsAnimating,
                    sequence,
                    dbTimers, dbApplied, dbMounted, dbLooped >>

\* the SELECT * quick action, rendered when a table is selected
SelectStarClick ==
    /\ dbMounted
    /\ selectedTable # Null
    /\ isAnimating' = CancelValue
    /\ query' = << "SELECT * FROM ", selectedTable, " LIMIT 100;" >>
    /\ UNCHANGED << expandedNodes, selectedNode, selectedTable, isRunning,
                    results, executionTime, animationStep, clickIndicator,
                    expandedRowIndex, closureIsAnimating,
                    sequence, dbTimers, dbApplied,
                    dbMounted, dbLooped >>

\* the Run button: busy flag and a 500 ms completion timer
RunClick ==
    /\ dbMounted
    /\ CountKind(dbTimers, { "query" }) < MaxRunTimers
    /\ isAnimating' = CancelValue
    /\ isRunning' = TRUE
    /\ dbTimers' = Append(dbTimers, Timer("query", RunDelay, 0, 0))
    /\ UNCHANGED << expandedNodes, selectedNode, selectedTable, query,
                    results, executionTime, animationStep, clickIndicator,
                    expandedRowIndex, closureIsAnimating, sequence, dbApplied,
                    dbMounted, dbLooped >>

\* the completion timer of the Run button
DbQueryFire ==
    /\ dbTimers # << >>
    /\ DbDue.kind = "query"
    /\ isRunning' = FALSE
    /\ \E t \in RandomTimes : executionTime' = t
    /\ results' = mockResults
    /\ dbTimers' = DbRest
    /\ UNCHANGED << expandedNodes, selectedNode, selectedTable, query,
                    animationStep, isAnimating, clickIndicator,
                    expandedRowIndex, closureIsAnimating, sequence, dbApplied,
                    dbMounted, dbLooped >>

\* click on row idx of the results table
RowClick(idx) ==
    /\ dbMounted
    /\ idx < Len(results)
    /\ isAnimating' = CancelValue
    /\ expandedRowIndex' = IF expandedRowIndex = idx THEN NullIndex ELSE idx
    /\ UNCHANGED << expandedNodes, selectedNode, selectedTable, query,
                    isRunning, results, executionTime, animationStep,
                    clickIndicator, closureIsAnimating,
                    sequence, dbTimers, dbApplied,
                    dbMounted, dbLooped >>

\* the Row Details window is rendered for an index that names a result row
DetailsOpen ==
    /\ expandedRowIndex # NullIndex
    /\ expandedRowIndex >= 0
    /\ expandedRowIndex < Len(results)

\* the close button of the Row Details window
CloseDetails ==
    /\ dbMounted
    /\ DetailsOpen
    /\ expandedRowIndex' = NullIndex
    /\ UNCHANGED << expandedNodes, selectedNode, selectedTable, query,
                    isRunning, results, executionTime, animationStep,
                    isAnimating, clickIndicator, closureIsAnimating,
                    sequence, dbTimers,
                    dbApplied, dbMounted, dbLooped >>

\* the cleanup of the effect, run when the component unmounts
DbUnmount ==
    /\ dbMounted
    /\ dbMounted' = FALSE
    /\ isAnimating' = FALSE
    /\ UNCHANGED << expandedNodes, selectedNode, selectedTable, query,
                    isRunning, results, executionTime, animationStep,
                    clickIndicator, expandedRowIndex, closureIsAnimating,
                    sequence,
                    dbTimers, dbApplied, dbLooped >>

\* state after the first render and the effect: runAnimation() is waiting
\* on the delay of step 0 of the sequence seq
DbInitWith(seq) ==
    /\ sequence = seq
    /\ expandedNodes = {}
    /\ selectedNode = Null
    /\ selectedTable = Null
    /\ query = << >>
    /\ isRunning = FALSE
    /\ results = << >>
    /\ executionTime = NullTime
    /\ animationStep = 0
    /\ isAnimating = TRUE
    /\ clickIndicator = [x |-> 0, y |-> 0, visible |-> FALSE]
    /\ expandedRowIndex = NullIndex
    /\ closureIsAnimating = TRUE
    /\ dbTimers = << Timer("step", StepAt(0).delay, 0, 0) >>
    /\ dbApplied = << >>
    /\ dbLooped = FALSE
    /\ dbMounted = TRUE

DbInit == DbInitWith(animationSequence)

DbScript == DbStepFire \/ DbCharFire \/ DbLoopFire \/ DbHideFire

DbUser ==
    \/ \E name \in TreeNodes : TreeNodeClick(name)
    \/ SelectStarClick
    \/ RunClick
    \/ DbQueryFire
    \/ \E idx \in UserRows : RowClick(idx)
    \/ CloseDetails

\* ------------------------------------------------------------ DesktopPreview
INITIAL_STATE ==
    [ phase |-> 0, terminalLines |-> << >>, terminalInput |-> << >>,
      showTerminal |-> FALSE, showVSCode |-> FALSE, showAnyrun |-> FALSE,
      anyrunQuery |-> << >>, anyrunSelected |-> 0,
      showNotification |-> FALSE, activeWorkspace |-> 1 ]

Neofetch == << "n", "e", "o", "f", "e", "t", "c", "h" >>
Code == << "c", "o", "d", "e" >>
TypeDelay == 80

\* runDemo as its sequence of segments: a mutation (or a typeText call)
\* followed by the delay that is awaited after it
Seg(op, ms) == [op |-> op, ms |-> ms]
demoScript ==
    << Seg("reset", 500),
       Seg("showTerminal", 800),
       Seg("typeTerminal", TypeDelay),
       Seg("pause", 300),
       Seg("neofetchOutput", 2500),
       Seg("showAnyrun", 400),
       Seg("typeAnyrun", TypeDelay),
       Seg("pause", 600),
       Seg("selectVSCode", 400),
       Seg("closeAnyrun", 200),
       Seg("showVSCode", 2000),
       Seg("workspace2", 1500),
       Seg("showNotification", 4000),
       Seg("hideNotification", 2000),
       Seg("reset", 1000) >>

TypeOps == { "typeTerminal", "typeAnyrun" }
TypedText(op) == IF op = "typeTerminal" THEN Neofetch ELSE Code

\* the setter typeText is called with, applied to text.slice(0, i)
TypeSetter(op, s, t) ==
    IF op = "typeTerminal" THEN [s EXCEPT !.terminalInput = t]
    ELSE [s EXCEPT !.anyrunQuery = t]

\* the setState call of a segment
DeskApply(op, s) ==
    CASE op = "reset" -> INITIAL_STATE
      [] op = "showTerminal" -> [s EXCEPT !.showTerminal = TRUE, !.phase = 1]
      [] op = "neofetchOutput" ->
           [s EXCEPT !.terminalLines =
                        << [type |-> "prompt", content |-> "neofetch"],
                           [type |-> "output", content |-> "neofetch"] >>,
                     !.terminalInput = << >>, !.phase = 3]
      [] op = "showAnyrun" -> [s EXCEPT !.showAnyrun = TRUE, !.phase = 4]
      [] op = "selectVSCode" -> [s EXCEPT !.anyrunSelected = 0]
      [] op = "closeAnyrun" -> [s EXCEPT !.showAnyrun = FALSE, !.phase = 6]
      [] op = "showVSCode" -> [s EXCEPT !.showVSCode = TRUE, !.phase = 7]
      [] op = "workspace2" -> [s EXCEPT !.activeWorkspace = 2, !.phase = 8]
      [] op = "showNotification" ->
           [s EXCEPT !.showNotification = TRUE, !.phase = 9]
      [] op = "hideNotification" -> [s EXCEPT !.showNotification = FALSE]
      [] OTHER -> s

\* a pending delay(): the segment (and character) it was awaited in, and
\* whether timeoutRef.current holds its id
DeskTimer(k, pc, j) == [kind |-> k, pc |-> pc, j |-> j, ref |-> TRUE]

\* delay() overwrites timeoutRef.current with the id of the new timer
DeskSchedule(ts, new) ==
    IF new = << >> THEN ts
    ELSE [m \in 1..Len(ts) |-> [ts[m] EXCEPT !.ref = FALSE]] \o new

\* the segment after pc; after the last one runDemo() calls itself
DeskNextSeg(pc) == IF pc = Len(demoScript) THEN 1 ELSE pc + 1

\* mutant: runDemo skips setState(INITIAL_STATE)
DeskEnterStateNoReset(pc, s) ==
    LET op == demoScript[pc].op
    IN  IF op \in TypeOps THEN TypeSetter(op, s, SubSeq(TypedText(op), 1, 0))
        ELSE IF op = "reset" THEN s
        ELSE DeskApply(op, s)

\* the chain enters segment pc: its mutation, then the delay it awaits
\* (for typeText: the first pass of the character loop)
DeskEnterState(pc, s) ==
    LET op == demoScript[pc].op
    IN  IF op \in TypeOps THEN TypeSetter(op, s, SubSeq(TypedText(op), 1, 0))
        ELSE DeskApply(op, s)

DeskEnterTimers(pc) ==
    IF demoScript[pc].op \in TypeOps THEN << DeskTimer("char", pc, 0) >>
    ELSE << DeskTimer("seg", pc, 0) >>

\* i <= text.length of the typeText loop
TypeTextRuns(op, i) == i <= Len(TypedText(op))

RemoveAt(ts, k) == SubSeq(ts, 1, k - 1) \o SubSeq(ts, k + 1, Len(ts))

\* a delay() of runDemo has elapsed and the async function resumes
DeskFire ==
    \E k \in 1..Len(deskTimers) :
        LET t == deskTimers[k]
            op == demoScript[t.pc].op
            rest == RemoveAt(deskTimers, k)
            i == t.j + 1
        IN  IF t.kind = "char" /\ TypeTextRuns(op, i)
            THEN /\ state' = TypeSetter(op, state, SubSeq(TypedText(op), 1, i))
                 /\ deskTimers' =
                        DeskSchedule(rest, << DeskTimer("char", t.pc, i) >>)
                 /\ UNCHANGED deskMounted
            ELSE /\ state' = DeskEnterState(DeskNextSeg(t.pc), state)
                 /\ deskTimers' =
                        DeskSchedule(rest, DeskEnterTimers(DeskNextSeg(t.pc)))
                 /\ UNCHANGED deskMounted

\* effect cleanup: clearTimeout(timeoutRef.current)
DeskUnmount ==
    /\ deskMounted
    /\ deskMounted' = FALSE
    /\ deskTimers' = SelectSeq(deskTimers, LAMBDA t : ~t.ref)
    /\ UNCHANGED state

\* after the first render and the effect: runDemo() awaits its first delay
DeskInit ==
    /\ state = DeskEnterState(1, INITIAL_STATE)
    /\ deskTimers = DeskEnterTimers(1)
    /\ deskMounted = TRUE

\* ------------------------------------------------------- InteractiveTerminal
AllCommands ==
    << [cmd |-> << "e", "z", "a", " ", "-", "l", "a" >>,
        output |-> << "drwxr-xr-x  src/", "-rw-r--r--  Cargo.toml",
                      "-rw-r--r--  README.md", "-rw-r--r--  .gitignore" >>],
       [cmd |-> << "b", "a", "t", " ", "C", "a", "r", "g", "o", ".", "t",
                   "o", "m", "l" >>,
        output |-> << "[package]", "name = \"aegis-project\"",
                      "version = \"0.1.0\"", "edition = \"2024\"" >>],
       [cmd |-> << "r", "g", " ", "\"", "f", "n", " ", "m", "a", "i", "n",
                   "\"" >>,
        output |-> << "src/main.rs:4:fn main() {" >>],
       [cmd |-> << "f", "d", " ", ".", "r", "s" >>,
        output |-> << "src/main.rs", "src/lib.rs", "src/utils.rs" >>],
       [cmd |-> << "c", "a", "r", "g", "o", " ", "b", "u", "i", "l", "d" >>,
        output |-> << "   Compiling aegis-project v0.1.0",
                      "    Finished dev [unoptimized + debuginfo]" >>] >>

\* the commands played; cmdIndex is 0-based as in the source
DEMO_COMMANDS ==
    SubSeq(AllCommands, 1,
           IF NumCommands < Len(AllCommands) THEN NumCommands
           ELSE Len(AllCommands))
Command(cmdIndex) == DEMO_COMMANDS[cmdIndex + 1]

Typing(c, ch) ==
    [type |-> "typing", cmdIndex |-> c, charIndex |-> ch, outputIndex |-> 0]
Executing(c, o) ==
    [type |-> "executing", cmdIndex |-> c, charIndex |-> 0, outputIndex |-> o]
Waiting(c) ==
    [type |-> "waiting", cmdIndex |-> c, charIndex |-> 0, outputIndex |-> 0]
Resetting ==
    [type |-> "resetting", cmdIndex |-> 0, charIndex |-> 0, outputIndex |-> 0]

\* mutant: the typing branch goes one character too far
StillTypingOneMore(p) == p.charIndex <= Len(Command(p.cmdIndex).cmd) + 1

\* the typing branch still reveals a character
StillTyping(p) == p.charIndex <= Len(Command(p.cmdIndex).cmd)
\* mutant: the executing branch stops before the last output line
HasOutputSkipsLast(p) == p.outputIndex + 1 < Len(Command(p.cmdIndex).output)

\* the executing branch still has an output line to append
HasOutput(p) == p.outputIndex < Len(Command(p.cmdIndex).output)

\* setPhase in the callback of the timer the effect created for phase p
TimerPhase(p) ==
    CASE p.type = "typing" /\ StillTyping(p) ->
             Typing(p.cmdIndex, p.charIndex + 1)
      [] p.type = "typing" /\ ~StillTyping(p) -> Executing(p.cmdIndex, 0)
      [] p.type = "executing" -> Executing(p.cmdIndex, p.outputIndex + 1)
      [] p.type = "waiting" ->
             IF p.cmdIndex + 1 < Len(DEMO_COMMANDS)
             THEN Typing(p.cmdIndex + 1, 0)
             ELSE Resetting
      [] OTHER -> Typing(0, 0)

\* setHistory in the callback of the timer the effect created for phase p
TimerHistory(p, h) ==
    CASE p.type = "typing" /\ ~StillTyping(p) ->
             Append(h, [type |-> "cmd", content |-> Command(p.cmdIndex).cmd])
      [] p.type = "executing" ->
             Append(h, [type |-> "output",
                        content |-> Command(p.cmdIndex).output[p.outputIndex + 1]])
      [] p.type = "resetting" -> << >>
      [] OTHER -> h

\* setCurrentInput("") in the callback
TimerInput(p, inp) ==
    IF (p.type = "typing" /\ ~StillTyping(p)) \/ p.type = "resetting"
    THEN << >> ELSE inp

\* the effect run for an executing phase with no output left sets the
\* waiting phase at once, and the effect runs again for that phase
EffectPhase(p) ==
    IF p.type = "executing" /\ ~HasOutput(p) THEN Waiting(p.cmdIndex) ELSE p

\* setCurrentInput(cmd.cmd.slice(0, charIndex)) in the effect
EffectInput(p, inp) ==
    IF p.type = "typing" /\ StillTyping(p)
    THEN Slice(Command(p.cmdIndex).cmd, p.charIndex)
    ELSE inp

\* the timer an effect run creates: it captures the phase of that render
TermTimer(p) == [phase |-> p, cur |-> TRUE]
\* mutant: the effect schedules its timer twice
EffectTimersTwice(p) == << TermTimer(p), TermTimer(p) >>

EffectTimers(p) == << TermTimer(p) >>

\* cleanup of the previous effect: clearTimeout(timer)
TermCleanup(ts) == SelectSeq(ts, LAMBDA t : ~t.cur)

\* a phase timer fires: its callback, then the render's cleanup and effect
TermFire ==
    \E k \in 1..Len(termTimers) :
        LET p == termTimers[k].phase
            rest == RemoveAt(termTimers, k)
            next == EffectPhase(TimerPhase(p))
        IN  /\ phase' = next
            /\ history' = TimerHistory(p, history)
            /\ currentInput' = EffectInput(next, TimerInput(p, currentInput))
            /\ termTimers' = TermCleanup(rest) \o EffectTimers(next)
            /\ UNCHANGED termMounted

\* unmount runs the cleanup of the last effect
TermUnmount ==
    /\ termMounted
    /\ termMounted' = FALSE
    /\ termTimers' = TermCleanup(termTimers)
    /\ UNCHANGED << phase, history, currentInput >>

\* after the first render and the effect
TermInit ==
    /\ phase = Typing(0, 0)
    /\ history = << >>
    /\ currentInput = EffectInput(Typing(0, 0), << >>)
    /\ termTimers = EffectTimers(Typing(0, 0))
    /\ termMounted = TRUE

\* ---------------------------------------------------------- UpdatesAppMockup
\* bounds on the timers the user can pile up
MaxIntervals == 2
MaxRefreshTimers == 2

IntervalPeriod == 300
RefreshDelay == 1500
\* the user lets time pass in steps of this many ms
TimeStep == 50
\* Math.random() * 15, rounded to two sample values
ProgressSteps == { 7, 14 }

\* handleUpdate, the onClick of Update All (rendered in state "updates")
UpdateAllClick ==
    /\ updState = "updates"
    /\ CountKind(updTimers, { "interval" }) < MaxIntervals
    /\ updState' = "updating"
    /\ progress' = 0
    /\ updTimers' = Append(updTimers, Timer("interval", IntervalPeriod, 0, 0))

\* handleRefresh: the header refresh button in any state, Check Again in
\* state "done"
HandleRefresh ==
    /\ CountKind(updTimers, { "refresh" }) < MaxRefreshTimers
    /\ updState' = "checking"
    /\ updTimers' = Append(updTimers, Timer("refresh", RefreshDelay, 0, 0))
    /\ UNCHANGED progress
HeaderRefreshClick == HandleRefresh
CheckAgainClick == updState = "done" /\ HandleRefresh

UpdDue == updTimers[DueIndex(updTimers)]
UpdRest == AfterFire(updTimers, DueIndex(updTimers))

\* a tick of an interval: the updater of setProgress
UpdIntervalFire ==
    /\ updTimers # << >>
    /\ UpdDue.kind = "interval"
    /\ IF progress >= 100
       THEN /\ updState' = "done"
            /\ progress' = 100
            /\ updTimers' = UpdRest
       ELSE /\ \E r \in ProgressSteps : progress' = progress + r
            /\ updTimers' =
                   Append(UpdRest, Timer("interval", IntervalPeriod, 0, 0))
            /\ UNCHANGED updState

\* the 1500 ms timer of handleRefresh
UpdRefreshFire ==
    /\ updTimers # << >>
    /\ UpdDue.kind = "refresh"
    /\ updState' = "updates"
    /\ updTimers' = UpdRest
    /\ UNCHANGED progress

\* TimeStep ms pass with no timer due in between
UpdIdle ==
    /\ updTimers # << >>
    /\ \A m \in 1..Len(updTimers) : updTimers[m].rem >= TimeStep
    /\ updTimers' =
           [m \in 1..Len(updTimers) |->
               [updTimers[m] EXCEPT !.rem = @ - TimeStep]]
    /\ UNCHANGED << updState, progress >>

UpdClick == UpdateAllClick \/ HeaderRefreshClick \/ CheckAgainClick
UpdTimer == UpdIntervalFire \/ UpdRefreshFire

UpdInit ==
    /\ updState = "updates"
    /\ progress = 0
    /\ updTimers = << >>

\* --------------------------------------------------------- InteractiveDbView
\* ids of the five mockData rows
mockData == << 1, 2, 3, 4, 5 >>
\* indices of the three connections
Connections == 0..2
\* executionTime in tenths of a millisecond; Math.random() * 50 + 10
ViewRandomTimes == { 100, 599 }
ViewRunDelay == 500

\* mutant: the Run button is never disabled
RunDisabledNever == FALSE

\* the disabled attribute of the Run button
RunDisabled == viewIsRunning

\* runQuery, the onClick of the Run button
RunQuery ==
    /\ ~RunDisabled
    /\ viewIsRunning' = TRUE
    /\ viewExecutionTime' = NullTime
    /\ viewTimers' = Append(viewTimers, Timer("query", ViewRunDelay, 0, 0))
    /\ UNCHANGED << viewResults, editMode, activeConnection >>

\* the 500 ms completion timer of runQuery
ViewQueryFire ==
    /\ viewTimers # << >>
    /\ \E t \in ViewRandomTimes : viewExecutionTime' = t
    /\ viewResults' = mockData
    /\ viewIsRunning' = FALSE
    /\ viewTimers' = AfterFire(viewTimers, DueIndex(viewTimers))
    /\ UNCHANGED << editMode, activeConnection >>

\* the Edit Mode button
EditModeClick ==
    /\ editMode' = ~editMode
    /\ UNCHANGED << viewIsRunning, viewResults, viewExecutionTime,
                    activeConnection, viewTimers >>

\* a connection row of the sidebar
ConnectionClick(idx) ==
    /\ activeConnection' = idx
    /\ UNCHANGED << viewIsRunning, viewResults, viewExecutionTime, editMode,
                    viewTimers >>

\* TimeStep ms pass with no timer due in between
ViewIdle ==
    /\ viewTimers # << >>
    /\ \A m \in 1..Len(viewTimers) : viewTimers[m].rem >= TimeStep
    /\ viewTimers' =
           [m \in 1..Len(viewTimers) |->
               [viewTimers[m] EXCEPT !.rem = @ - TimeStep]]
    /\ UNCHANGED << viewIsRunning, viewResults, viewExecutionTime, editMode,
                    activeConnection >>

ViewClick ==
    RunQuery \/ EditModeClick \/ \E idx \in Connections : ConnectionClick(idx)

ViewInit ==
    /\ viewIsRunning = FALSE
    /\ viewResults = << >>
    /\ viewExecutionTime = NullTime
    /\ editMode = FALSE
    /\ activeConnection = 0
    /\ viewTimers = << >>

\* ------------------------------------------------------- InteractiveMacropad
\* bound on the release timers the user can pile up
MaxPressTimers == 2

ReleaseDelay == 150

\* a button: its label split at the blank, and its active flag
Button(l, a) == [label |-> l, active |-> a]
initialButtons ==
    << Button(<< "LIVE" >>, FALSE), Button(<< "RECORD" >>, FALSE),
       Button(<< "SCENE", "1" >>, TRUE), Button(<< "SCENE", "2" >>, FALSE),
       Button(<< "SCENE", "3" >>, FALSE),
       Button(<< "MIC" >>, TRUE), Button(<< "MUSIC" >>, TRUE),
       Button(<< "GAME" >>, FALSE), Button(<< "LIGHT" >>, TRUE),
       Button(<< "CONFIG" >>, FALSE),
       Button(<< "SFX", "1" >>, FALSE), Button(<< "SFX", "2" >>, FALSE),
       Button(<< "SFX", "3" >>, FALSE), Button(<< "SFX", "4" >>, FALSE),
       Button(<< "PHONE" >>, FALSE) >>

\* 0-based indices of the grid, as handlePress receives them
ButtonIndices == 0..(Len(initialButtons) - 1)
Pages == 1..3

Toggleable ==
    { << "LIVE" >>, << "RECORD" >>, << "MIC" >>, << "MUSIC" >>, << "GAME" >>,
      << "LIGHT" >> }
\* label.startsWith(prefix)
StartsWith(label, prefix) == label[1] = prefix

\* mutant: the scene branch switches the pressed scene on and leaves the
\* other scenes as they are
SceneActiveAdds(b, i, index) == IF i = index THEN TRUE ELSE b.active

\* the active flag the scene branch gives button b at index i
SceneActive(b, i, index) ==
    IF StartsWith(b.label, "SCENE") THEN i = index ELSE b.active

\* setButtons of handlePress(index)
PressedButtons(index) ==
    LET btn == buttons[index + 1]
    IN  IF btn.label \in Toggleable
        THEN [buttons EXCEPT ![index + 1].active = ~btn.active]
        ELSE IF StartsWith(btn.label, "SCENE")
        THEN [m \in 1..Len(buttons) |->
                 [buttons[m] EXCEPT
                     !.active = SceneActive(buttons[m], m - 1, index)]]
        ELSE buttons

\* the text of lastAction: the label it names and the words around it
Action(l, w) == [label |-> l, words |-> w]

\* setLastAction of handlePress(index)
PressedAction(index) ==
    LET btn == buttons[index + 1]
    IN  IF btn.label \in Toggleable
        THEN Action(btn.label, IF ~btn.active THEN "ON" ELSE "OFF")
        ELSE IF StartsWith(btn.label, "SCENE")
        THEN Action(btn.label, "Switched to")
        ELSE IF StartsWith(btn.label, "SFX") THEN Action(btn.label, "Playing")
        ELSE Action(btn.label, "triggered")

\* handlePress(index), the onClick of a grid button
HandlePress(index) ==
    /\ Len(padTimers) < MaxPressTimers
    /\ pressedIndex' = index
    /\ buttons' = PressedButtons(index)
    /\ lastAction' = PressedAction(index)
    /\ padTimers' = Append(padTimers, Timer("release", ReleaseDelay, 0, 0))
    /\ UNCHANGED currentPage

\* the 150 ms release timer
PadReleaseFire ==
    /\ padTimers # << >>
    /\ pressedIndex' = NullIndex
    /\ padTimers' = AfterFire(padTimers, DueIndex(padTimers))
    /\ UNCHANGED << buttons, currentPage, lastAction >>

\* a page indicator
PageClick(page) ==
    /\ currentPage' = page
    /\ UNCHANGED << buttons, pressedIndex, lastAction, padTimers >>

PadClick ==
    \/ \E index \in ButtonIndices : HandlePress(index)
    \/ \E page \in Pages : PageClick(page)

PadInit ==
    /\ buttons = initialButtons
    /\ currentPage = 1
    /\ pressedIndex = NullIndex
    /\ lastAction = Action(<< >>, "")
    /\ padTimers = << >>

\* -------------------------------------------------------------- StatsCounter
\* number of StatCards modelled
NumStats == 2

\* stat.value of the four STATS
AllStats == << 40, 80, 6, 100 >>
STATS ==
    SubSeq(AllStats, 1,
           IF NumStats < Len(AllStats) THEN NumStats ELSE Len(AllStats))
Cards == 1..Len(STATS)

duration == 2000
steps == 60
\* duration / steps, in whole ms
StatPeriod == duration \div steps

\* current after k increments of stat.value / steps, times steps; the
\* floating point sum is within rounding of this
CurrentTimesSteps(c, k) == k * STATS[c]

\* outcomes of current >= stat.value after k increments: rounding decides
\* when the sum is at stat.value exactly
ReachedChoices(k) ==
    IF k > steps THEN { TRUE } ELSE IF k = steps THEN BOOLEAN ELSE { FALSE }

\* outcomes of Math.floor(current) when current < stat.value: at a whole
\* number the rounded sum may lie just below it
FloorChoices(c, k) ==
    LET e == CurrentTimesSteps(c, k)
        whole == e \div steps
    IN  { x \in (IF e % steps = 0 THEN { whole - 1, whole } ELSE { whole }) :
            x < STATS[c] }

\* mutant: the last tick sets the count and leaves the interval running
TimersAfterLastKept(rest, c) == Append(rest, Timer("count", StatPeriod, c, 0))

\* clearInterval(timer) in the last tick of card c
TimersAfterLast(rest, c) == rest

StatDue == statTimers[DueIndex(statTimers)]
StatRest == AfterFire(statTimers, DueIndex(statTimers))

\* a tick of the interval of a StatCard
StatTick ==
    /\ statTimers # << >>
    /\ LET c == StatDue.i
           k == current[c] + 1
       IN  /\ current' = [current EXCEPT ![c] = k]
           /\ \E reached \in ReachedChoices(k) :
                  IF reached
                  THEN /\ count' = [count EXCEPT ![c] = STATS[c]]
                       /\ statTimers' = TimersAfterLast(StatRest, c)
                  ELSE /\ \E x \in FloorChoices(c, k) :
                              count' = [count EXCEPT ![c] = x]
                       /\ statTimers' =
                              Append(StatRest, Timer("count", StatPeriod, c, 0))
    /\ UNCHANGED isVisible

\* the IntersectionObserver reports the grid as intersecting: the effect of
\* every StatCard runs when isVisible changes
StatIntersect ==
    /\ isVisible' = TRUE
    /\ IF isVisible THEN UNCHANGED << count, current, statTimers >>
       ELSE /\ statTimers' = [c \in Cards |-> Timer("count", StatPeriod, c, 0)]
            /\ current' = [c \in Cards |-> 0]
            /\ UNCHANGED count

StatInit ==
    /\ isVisible = FALSE
    /\ count = [c \in Cards |-> 0]
    /\ current = [c \in Cards |-> 0]
    /\ statTimers = << >>

WidgetInit == UpdInit /\ ViewInit /\ PadInit /\ StatInit

\* ---------------------------------------------------------- specifications
Init == DbInit /\ DeskInit /\ TermInit /\ WidgetInit

\* AnimatedDbDemo with its user
NextDb ==
    \/ (DbScript /\ UNCHANGED << deskVars, termVars, widgetVars >>)
    \/ (DbUser /\ UNCHANGED << deskVars, termVars, widgetVars >>)
    \/ (DbUnmount /\ UNCHANGED << deskVars, termVars, widgetVars >>)
SpecDb == Init /\ [][NextDb]_vars

\* AnimatedDbDemo and DesktopPreview left alone, from mount to unmount
Next ==
    \/ (DbScript /\ UNCHANGED << deskVars, termVars, widgetVars >>)
    \/ (DeskFire /\ UNCHANGED << dbVars, termVars, widgetVars >>)
    \/ (DbUnmount /\ UNCHANGED << deskVars, termVars, widgetVars >>)
    \/ (DeskUnmount /\ UNCHANGED << dbVars, termVars, widgetVars >>)
Spec == Init /\ [][Next]_vars

\* AnimatedDbDemo and InteractiveTerminal left alone, from mount to unmount
NextTerm ==
    \/ (DbScript /\ UNCHANGED << deskVars, termVars, widgetVars >>)
    \/ (TermFire /\ UNCHANGED << dbVars, deskVars, widgetVars >>)
    \/ (DbUnmount /\ UNCHANGED << deskVars, termVars, widgetVars >>)
    \/ (TermUnmount /\ UNCHANGED << dbVars, deskVars, widgetVars >>)
SpecTerm == Init /\ [][NextTerm]_vars

\* the three surfaces left alone and mounted; timers that are due fire
NextAuto ==
    \/ (DbScript /\ UNCHANGED << deskVars, termVars, widgetVars >>)
    \/ (DeskFire /\ UNCHANGED << dbVars, termVars, widgetVars >>)
    \/ (TermFire /\ UNCHANGED << dbVars, deskVars, widgetVars >>)
SpecAuto ==
    /\ Init
    /\ [][NextAuto]_vars
    /\ WF_vars(DbScript /\ UNCHANGED << deskVars, termVars, widgetVars >>)
    /\ WF_vars(DeskFire /\ UNCHANGED << dbVars, termVars, widgetVars >>)
    /\ WF_vars(TermFire /\ UNCHANGED << dbVars, deskVars, widgetVars >>)

\* UpdatesAppMockup and its user
UpdOthers == << dbVars, deskVars, termVars, viewVars, padVars, statVars >>
NextUpd ==
    \/ (UpdClick /\ UNCHANGED UpdOthers)
    \/ (UpdTimer /\ UNCHANGED UpdOthers)
    \/ (UpdIdle /\ UNCHANGED UpdOthers)
SpecUpd == Init /\ [][NextUpd]_vars

\* InteractiveDbView and its user; a pending completion timer fires
ViewOthers == << dbVars, deskVars, termVars, updVars, padVars, statVars >>
NextView ==
    \/ (ViewClick /\ UNCHANGED ViewOthers)
    \/ (ViewQueryFire /\ UNCHANGED ViewOthers)
    \/ (ViewIdle /\ UNCHANGED ViewOthers)
SpecView ==
    /\ Init
    /\ [][NextView]_vars
    /\ WF_vars(ViewQueryFire /\ UNCHANGED ViewOthers)

\* InteractiveMacropad and its user
PadOthers == << dbVars, deskVars, termVars, updVars, viewVars, statVars >>
NextPad ==
    \/ (PadClick /\ UNCHANGED PadOthers)
    \/ (PadReleaseFire /\ UNCHANGED PadOthers)
SpecPad == Init /\ [][NextPad]_vars

\* StatsCounter scrolled into view; the intervals tick
StatOthers == << dbVars, deskVars, termVars, updVars, viewVars, padVars >>
NextStat ==
    \/ (StatIntersect /\ UNCHANGED StatOthers)
    \/ (StatTick /\ UNCHANGED StatOthers)
SpecStat ==
    /\ Init
    /\ [][NextStat]_vars
    /\ WF_vars(StatTick /\ UNCHANGED StatOthers)

\* runAnimation over a short sequence that holds one malformed step
\* the action kinds of AnimationStep
KnownActions ==
    { "expand", "select", "type", "run", "showResults", "selectTable",
      "click", "expandRow", "wait" }

\* steps the authored sequence does not contain: a kind the switch has no
\* case for, a table that is not in the schema, a row index past the result
\* set, an expand without a target
MalformedSteps ==
    { Step("hover", "users", 30, 40, 100),
      Step("selectTable", "invoices", NoCoord, NoCoord, 100),
      Step("expandRow", "7", NoCoord, NoCoord, 100),
      Step("expand", Undefined, NoCoord, NoCoord, 100) }

ProbeBase ==
    << Step("click", Undefined, 10, 20, 400),
       Step("type", Undefined, NoCoord, NoCoord, 50),
       Step("showResults", Undefined, NoCoord, NoCoord, 100) >>

InsertAt(seq, k, step) ==
    SubSeq(seq, 1, k) \o << step >> \o SubSeq(seq, k + 1, Len(seq))

ProbeSequences ==
    { InsertAt(ProbeBase, k, step) :
          k \in 0..Len(ProbeBase), step \in MalformedSteps }

InitStep ==
    /\ \E seq \in ProbeSequences : DbInitWith(seq)
    /\ DeskInit
    /\ TermInit
    /\ WidgetInit
NextStep == DbScript /\ UNCHANGED << deskVars, termVars, widgetVars >>
SpecStep == InitStep /\ [][NextStep]_vars

\* ------------------------------------------------------------------ claims
\* a timer of the runAnimation chain fires (a step delay, a character delay
\* or the pause before reset-and-loop)
DbChain == DbStepFire \/ DbCharFire \/ DbLoopFire

DbChainTimers == SelectSeq(dbTimers, LAMBDA t : t.kind \in ChainKinds)

\* index of the type step of animationSequence
TypeIndex == CHOOSE i \in 0..(SeqLength - 1) : StepAt(i).action = "type"

\* the indices below i of the steps that are not wait steps, in order
RECURSIVE NonWaitBelow(_)
NonWaitBelow(i) ==
    IF i = 0 THEN << >>
    ELSE IF StepAt(i - 1).action = "wait" THEN NonWaitBelow(i - 1)
    ELSE Append(NonWaitBelow(i - 1), i - 1)

\* a user handler has set isAnimating to false on the mounted component
Cancelled == dbMounted /\ ~isAnimating

\* C1: once a user handler has cancelled playback, no timer of the
\* runAnimation chain changes the surface state any more
C1_CancelStopsMutations ==
    [][(Cancelled /\ DbChain) => UNCHANGED dbSurface]_vars

\* C2: cancelled while the type step has revealed k < length characters, the
\* script reveals no further character: a character timer that fires after
\* the cancel leaves query as it is
C2_CancelFreezesQuery ==
    [][(Cancelled /\ DbCharFire /\ DbDue.j < Len(targetQuery))
          => query' = query]_vars

\* ---- typed text
\* the buffer changes only by being emptied or by growing to the next prefix
GrowsByOne(old, new, text) ==
    new = << >> \/ (Len(new) = Len(old) + 1 /\ new = Slice(text, Len(new)))

\* the type step of runAnimation has finished in the current pass
DbTypeDone ==
    \E m \in 1..Len(dbTimers) :
        \/ dbTimers[m].kind = "step" /\ dbTimers[m].i > TypeIndex
        \/ dbTimers[m].kind = "loop"

\* the typeText call of segment pc of runDemo has returned and the delay
\* that follows it is being awaited
DeskTypeDone(pc) ==
    /\ demoScript[pc].op \in TypeOps
    /\ \E m \in 1..Len(deskTimers) :
           deskTimers[m].kind = "seg" /\ deskTimers[m].pc = pc + 1

TypedState ==
    /\ \A m \in 1..Len(dbTimers) :
           dbTimers[m].kind = "char" =>
               query = Slice(targetQuery, dbTimers[m].j)
    /\ DbTypeDone => query = targetQuery
    /\ \A m \in 1..Len(deskTimers) :
           deskTimers[m].kind = "char" =>
               LET op == demoScript[deskTimers[m].pc].op
                   buffer == IF op = "typeTerminal" THEN state.terminalInput
                             ELSE state.anyrunQuery
               IN  buffer = Slice(TypedText(op), deskTimers[m].j)
    /\ \A pc \in 1..Len(demoScript) :
           DeskTypeDone(pc) =>
               IF demoScript[pc].op = "typeTerminal"
               THEN state.terminalInput = Neofetch
               ELSE state.anyrunQuery = Code

TypedStep ==
    /\ query' # query => GrowsByOne(query, query', targetQuery)
    /\ state'.terminalInput # state.terminalInput =>
           GrowsByOne(state.terminalInput, state'.terminalInput, Neofetch)
    /\ state'.anyrunQuery # state.anyrunQuery =>
           GrowsByOne(state.anyrunQuery, state'.anyrunQuery, Code)

\* C3: an uninterrupted typed-text step over a string of length N shows the
\* N+1 prefixes in order: while a character delay is awaited the buffer is
\* the prefix of that index, every change of the buffer adds exactly the next
\* character (or empties it), and when the step has finished the buffer is
\* the whole string; for query, terminalInput and anyrunQuery
C3_TypedPrefixesInOrder == []TypedState /\ [][TypedStep]_vars

\* the type steps of both surfaces have run to their end
C3_Witness ==
    /\ DbTypeDone /\ query = targetQuery /\ Len(targetQuery) > 0
    /\ \E pc \in 1..Len(demoScript) :
           DeskTypeDone(pc) /\ state.anyrunQuery = Code
    /\ state.terminalLines # << >>

\* ---- order of the steps
\* C4: the steps of one pass are dispatched in index order, one at a time:
\* there is at most one pending chain timer, and the steps dispatched so far
\* are exactly the steps below the one the chain is waiting on (a character
\* timer of the type step counts as that step still being in progress)
C4_StepsInIndexOrder ==
    /\ Len(DbChainTimers) <= 1
    /\ \A m \in 1..Len(dbTimers) :
           LET t == dbTimers[m]
           IN  /\ t.kind = "step" => dbApplied = NonWaitBelow(t.i)
               /\ t.kind = "char" =>
                      t.i = TypeIndex /\ dbApplied = NonWaitBelow(t.i + 1)
               /\ t.kind = "loop" => dbApplied = NonWaitBelow(SeqLength)

\* the chain is past the type step, waiting on the delay of the run step
C4_Witness ==
    \E m \in 1..Len(dbTimers) :
        /\ dbTimers[m].kind = "step"
        /\ StepAt(dbTimers[m].i).action = "run"
        /\ dbApplied = NonWaitBelow(dbTimers[m].i)
        /\ Len(dbApplied) > 5

\* ---- cancelling between two steps
\* C5: after a user handler has cancelled playback the pass is frozen: the
\* steps dispatched so far stay as they are, no later step is dispatched and
\* no reset-and-loop follows
C5_CancelFreezesPass ==
    [][Cancelled => (dbApplied' = dbApplied /\ ~DbLoopFire)]_vars

\* ---- every step once
NonWaitIndices == { i \in 0..(SeqLength - 1) : StepAt(i).action # "wait" }

\* the for loop of the current pass has ended and the pause is awaited
DbPassEnd == \E m \in 1..Len(dbTimers) : dbTimers[m].kind = "loop"

EachNonWaitOnce ==
    /\ Len(dbApplied) = Cardinality(NonWaitIndices)
    /\ \A i \in NonWaitIndices :
           Cardinality({ m \in 1..Len(dbApplied) : dbApplied[m] = i }) = 1

\* C6: when a pass of runAnimation has run to its end, every non-wait step
\* has been dispatched exactly once in that pass, and the dispatch of a wait
\* step changes no surface state
C6_EachStepOnce ==
    /\ [](DbPassEnd => EachNonWaitOnce)
    /\ [][(DbStepFire /\ StepAt(DbDue.i).action = "wait")
             => UNCHANGED dbSurface]_vars

C6_Witness == DbPassEnd /\ EachNonWaitOnce /\ results = mockResults

\* ---- one playback per surface
\* C7: a surface never has more than one playback chain waiting on a delay:
\* at most one chain timer of runAnimation and at most one delay() of runDemo
C7_OnePlaybackPerSurface ==
    Len(DbChainTimers) <= 1 /\ Len(deskTimers) <= 1

\* runAnimation has looped and runDemo is about to call itself, each with
\* its one chain pending
C7_Witness ==
    /\ dbLooped /\ dbMounted /\ deskMounted
    /\ Len(DbChainTimers) = 1 /\ Len(deskTimers) = 1
    /\ \E m \in 1..Len(deskTimers) : deskTimers[m].pc = Len(demoScript)

\* ---- no overlap of two playbacks
\* the surface state the reset of reset-and-loop leaves
DbInitialSurface ==
    << {}, Null, Null, << >>, FALSE, << >>, NullTime, NullIndex,
       [x |-> 0, y |-> 0, visible |-> FALSE] >>

\* C8: a new pass of runAnimation begins only when the previous pass has
\* dispatched all its steps and the reset is applied, with no timer of the
\* previous pass left pending; in InteractiveTerminal every pending timer is
\* the timer of the current phase
C8_NoOverlap ==
    /\ [](\A m \in 1..Len(termTimers) : termTimers[m].phase = phase)
    /\ [][DbLoopFire =>
             /\ dbApplied = NonWaitBelow(SeqLength)
             /\ DbRest = << >>
             /\ dbSurface' = DbInitialSurface
             /\ Len(dbTimers') = 1]_vars

\* runAnimation has started again and is playing, and the terminal is in a
\* later phase with the timer of that phase pending
C8_Witness ==
    /\ dbLooped /\ dbApplied # << >>
    /\ phase.type = "waiting" /\ phase.cmdIndex > 0
    /\ Len(termTimers) = 1

\* ---- no resume after a cancel
\* C9: after a user handler has cancelled playback, isAnimating stays false
\* and no pass of the script starts
C9_NoResumeAfterCancel ==
    [][Cancelled => (~isAnimating' /\ ~DbLoopFire)]_vars

\* ---- looping when left alone
DbPassStart ==
    /\ animationStep = 0 /\ dbApplied = << >>
    /\ \E m \in 1..Len(dbTimers) : dbTimers[m].kind = "step" /\ dbTimers[m].i = 0

DeskPassEnd ==
    \E m \in 1..Len(deskTimers) :
        deskTimers[m].kind = "seg" /\ deskTimers[m].pc = Len(demoScript)
DeskPassStart ==
    /\ state = INITIAL_STATE
    /\ \E m \in 1..Len(deskTimers) :
           deskTimers[m].kind = "seg" /\ deskTimers[m].pc = 1

TermPassEnd == phase.type = "resetting"
TermPassStart ==
    phase = Typing(0, 0) /\ history = << >> /\ currentInput = << >>

\* C10: left alone, each of the three surfaces reaches the end of its pass
\* again and again and starts a pass from the first step again and again, so
\* every end of a pass is followed by a new pass
C10_LoopsForever ==
    /\ []<>DbPassEnd /\ []<>DbPassStart
    /\ []<>DeskPassEnd /\ []<>DeskPassStart
    /\ []<>TermPassEnd /\ []<>TermPassStart

\* runAnimation has started a pass again while the other two surfaces have
\* reached the end of theirs
C10_Witness == dbLooped /\ DbPassStart /\ DeskPassEnd /\ TermPassEnd

\* ---- malformed steps
\* the chain timers in ts are the one timer that awaits step i, or after the
\* last step the pause before reset-and-loop
ChainAwaits(ts, i) ==
    SelectSeq(ts, LAMBDA t : t.kind \in ChainKinds) =
        IF i < SeqLength THEN << Timer("step", StepAt(i).delay, i, 0) >>
        ELSE << Timer("loop", LoopPause, 0, 0) >>

\* the delay of a step of an unknown kind has elapsed
UnknownStepFire == DbStepFire /\ StepAt(DbDue.i).action \notin KnownActions

\* a step of an unknown kind has been passed and a later step dispatched
PassedUnknownStep ==
    \E m \in 1..(Len(dbApplied) - 1) :
        StepAt(dbApplied[m]).action \notin KnownActions

\* C12: a step of a kind the switch has no case for changes no surface state
\* and the chain goes on to await the next step (or the pause after the last)
C12_UnknownKindIsNoOp ==
    [][UnknownStepFire =>
          /\ UNCHANGED dbSurface
          /\ ChainAwaits(dbTimers', DbDue.i + 1)]_vars

C12_Witness == PassedUnknownStep /\ results = mockResults

\* the target of the step is missing or names nothing: a table that is not
\* in the schema, an index that is not a row of results, an expand without a
\* target
MalformedTarget(step) ==
    \/ step.action = "selectTable" /\ FindTable(step.target) = Undefined
    \/ /\ step.action = "expandRow"
       /\ ParseInt(step.target) \notin 0..(Len(results) - 1)
    \/ step.action = "expand" /\ step.target = Undefined

\* C18: a step with a missing or out-of-range target leaves expandedNodes,
\* selectedNode, selectedTable and expandedRowIndex unchanged
C18_BadTargetIsNoOp ==
    [][(DbStepFire /\ MalformedTarget(StepAt(DbDue.i))) =>
          UNCHANGED << expandedNodes, selectedNode, selectedTable,
                       expandedRowIndex >>]_vars

\* ---- the cancelling handlers
SelectStarText == << "SELECT * FROM ", selectedTable, " LIMIT 100;" >>

\* a user interaction whose handler calls setIsAnimating(false)
CancelClick ==
    \/ \E name \in TreeNodes : TreeNodeClick(name)
    \/ SelectStarClick
    \/ RunClick
    \/ \E idx \in UserRows : RowClick(idx)

\* C11: a cancelling interaction on an already cancelled playback leaves
\* isAnimating false, adds no timer to the runAnimation chain, removes none
\* and starts no pass; no timer in between sets isAnimating back to true
C11_CancelIdempotent ==
    [][/\ ~isAnimating => ~isAnimating'
       /\ (Cancelled /\ CancelClick) =>
              /\ DbChainTimers' = DbChainTimers
              /\ dbApplied' = dbApplied
              /\ dbLooped' = dbLooped
              /\ animationStep' = animationStep]_vars

\* SELECT * was clicked and then Run: two cancelling interactions, the
\* completion timer of the second still pending
C11_Witness ==
    /\ Cancelled
    /\ query = SelectStarText
    /\ CountKind(dbTimers, { "query" }) = 1
    /\ isRunning

\* the step with which a handler takes playback from running to cancelled
CancellingStep == dbMounted' /\ isAnimating /\ ~isAnimating'

\* the manual mutations of the four cancelling handlers
TreeMutation(name) ==
    /\ selectedNode' = name
    /\ expandedNodes' =
           IF ~HasChildren(name) THEN expandedNodes
           ELSE IF name \in expandedNodes THEN expandedNodes \ { name }
           ELSE expandedNodes \cup { name }
QueryMutation == query' = SelectStarText
RunMutation ==
    /\ isRunning'
    /\ CountKind(dbTimers', { "query" }) = CountKind(dbTimers, { "query" }) + 1
RowMutation(idx) ==
    expandedRowIndex' = IF expandedRowIndex = idx THEN NullIndex ELSE idx

\* C13: the interaction that cancels playback also applies its own change:
\* the clicked node selected and, when it has children, toggled; the query
\* replaced; the run started; the clicked row toggled
C13_CancelKeepsMutation ==
    [][CancellingStep =>
          \/ \E name \in TreeNodes : TreeMutation(name)
          \/ QueryMutation
          \/ RunMutation
          \/ \E idx \in UserRows : RowMutation(idx)]_vars

\* the first click, on 'public', cancelled playback and expanded the node
C13_Witness ==
    /\ Cancelled
    /\ dbApplied = << >> /\ ~dbLooped
    /\ expandedNodes = { "public" }
    /\ selectedNode = "public"

\* C14: cancelled while the delay of a step is awaited, the action of the
\* step is not applied when the delay ends
C14_CancelDuringDelay ==
    [][(Cancelled /\ DbStepFire /\ StepAt(DbDue.i).action # "wait") =>
          /\ UNCHANGED dbSurface
          /\ dbApplied' = dbApplied]_vars

\* the state variables the script writes as well as the user
ScriptWritten ==
    << expandedNodes, selectedNode, selectedTable, query, isRunning,
       results, executionTime, expandedRowIndex >>

\* C15: a user handler that changes a variable the script also writes
\* leaves playback cancelled
C15_UserWritesCancel ==
    [][(DbUser /\ ScriptWritten' # ScriptWritten) => ~isAnimating']_vars

\* ---- unmount
\* where the runAnimation chain stands: the awaits it is suspended at,
\* without the time each still has to run
ChainPosition ==
    [m \in 1..Len(DbChainTimers) |->
        << DbChainTimers[m].kind, DbChainTimers[m].i, DbChainTimers[m].j >>]

\* C16: after the effect cleanup of a surface has run, its script applies no
\* further mutation and its chain of timers does not move
C16_UnmountHalts ==
    [][/\ ~dbMounted =>
              /\ UNCHANGED dbSurface
              /\ dbApplied' = dbApplied
              /\ ChainPosition' = ChainPosition
       /\ ~deskMounted => UNCHANGED << state, deskTimers >>
       /\ ~termMounted =>
              UNCHANGED << phase, history, currentInput, termTimers >>]_vars

\* ---- reset before restart
\* runDemo awaits the delay of segment pc
DeskAwaits(pc) ==
    \E m \in 1..Len(deskTimers) :
        deskTimers[m].kind = "seg" /\ deskTimers[m].pc = pc

\* runAnimation dispatches the first steps of a pass, up to the first that
\* is not a wait; runDemo leaves the delay after its reset and applies its
\* first mutation
DbFirstStep == DbStepFire /\ dbApplied = << >>
DeskFirstStep == DeskAwaits(1) /\ DeskAwaits(2)'

ClickStepFire ==
    /\ DbStepFire
    /\ StepAt(DbDue.i).action = "click"
    /\ StepAt(DbDue.i).clickX # NoCoord
    /\ StepAt(DbDue.i).clickY # NoCoord

\* a visible indicator has its hide timer pending, due within 600 ms
IndicatorArmed ==
    clickIndicator.visible =>
        \E m \in 1..Len(dbTimers) :
            dbTimers[m].kind = "hide" /\ dbTimers[m].rem <= HideDelay

\* C19: a click step shows the indicator at its coordinates, arms a 600 ms
\* hide timer and goes on to await the next step's own delay; the hide timer
\* hides the indicator without touching the chain; a shown indicator is
\* hidden again
C19_IndicatorTransient ==
    /\ []IndicatorArmed
    /\ [][ClickStepFire =>
             /\ clickIndicator' =
                    [x |-> StepAt(DbDue.i).clickX,
                     y |-> StepAt(DbDue.i).clickY, visible |-> TRUE]
             /\ \E m \in 1..Len(dbTimers') :
                    dbTimers'[m] = Timer("hide", HideDelay, 0, 0)
             /\ ChainAwaits(dbTimers', DbDue.i + 1)]_vars
    /\ [][DbHideFire =>
             /\ ~clickIndicator'.visible
             /\ ChainPosition' = ChainPosition
             /\ dbApplied' = dbApplied]_vars
    /\ []<>(~clickIndicator.visible)

\* the indicator is still shown while the step after the click has already
\* been dispatched
C19_Witness ==
    /\ clickIndicator.visible
    /\ CountKind(dbTimers, { "hide" }) = 1
    /\ dbApplied # << >>
    /\ StepAt(dbApplied[Len(dbApplied)]).action = "expand"

\* ---- run after type
\* C20: when the script sets isRunning to true the whole targetQuery has
\* been typed
C20_RunAfterType ==
    [][(DbChain /\ ~isRunning /\ isRunning') => query = targetQuery]_vars

C20_Witness ==
    /\ isRunning
    /\ query = targetQuery
    /\ dbApplied # << >>
    /\ StepAt(dbApplied[Len(dbApplied)]).action = "run"

\* ---- the busy flag
\* the action of the step dispatched last in the current pass
LastAction ==
    IF dbApplied = << >> THEN "none"
    ELSE StepAt(dbApplied[Len(dbApplied)]).action

\* C21: in scripted playback isRunning is true only while the run step is
\* the step dispatched last, and the showResults step leaves isRunning
\* false, results equal to mockResults and executionTime set
C21_BusyEndedByResults ==
    /\ [](isRunning => LastAction = "run")
    /\ [][(DbStepFire /\ StepAt(DbDue.i).action = "showResults") =>
             /\ isRunning /\ ~isRunning'
             /\ results' = mockResults
             /\ executionTime' # NullTime
             /\ executionTime' = ScriptTime]_vars

C21_Witness ==
    /\ LastAction = "showResults"
    /\ ~isRunning
    /\ results = mockResults
    /\ executionTime = ScriptTime

\* ---- the cursor
\* the fields a phase of each type carries are in range
PhaseInBounds(p) ==
    /\ p.type \in { "typing", "executing", "waiting", "resetting" }
    /\ p.type # "resetting" =>
           p.cmdIndex \in 0..(Len(DEMO_COMMANDS) - 1)
    /\ p.type = "typing" =>
           p.charIndex \in 0..(Len(Command(p.cmdIndex).cmd) + 1)
    /\ p.type = "executing" =>
           p.outputIndex \in 0..Len(Command(p.cmdIndex).output)

\* C22: animationStep is between 0 and the length of the sequence; cmdIndex
\* is an index of DEMO_COMMANDS, charIndex is at most the command length
\* plus one and outputIndex at most the number of output lines
C22_CursorInBounds ==
    /\ animationStep \in 0..SeqLength
    /\ PhaseInBounds(phase)

\* both cursors at the far end: the last step of the sequence awaited, the
\* last command typed out
C22_Witness ==
    /\ animationStep = SeqLength - 1
    /\ phase.type = "typing"
    /\ phase.cmdIndex = Len(DEMO_COMMANDS) - 1
    /\ phase.charIndex = Len(Command(phase.cmdIndex).cmd) + 1

\* ---- the status indicator
\* the "Demo playing" label and the caret of the query are rendered
DemoPlayingShown == dbMounted /\ isAnimating

\* C23: on the mounted component a timer of the runAnimation chain changes
\* the surface or dispatches a step only while "Demo playing" is shown
C23_IndicatorTruthful ==
    [][(dbMounted /\ DbChain /\
        (dbSurface' # dbSurface \/ dbApplied' # dbApplied))
          => DemoPlayingShown]_vars

\* ---- one phase timer
\* every pending timer of the terminal was created by the effect of the
\* current phase
TimersOfCurrentPhase ==
    \A m \in 1..Len(termTimers) : termTimers[m].phase = phase

\* C24: at most one phase timer is pending and it belongs to the current
\* phase; a phase change leaves exactly the timer of the new phase, and the
\* timer that fires is the one of the phase being left
C24_OnePhaseTimer ==
    /\ [](Len(termTimers) <= 1 /\ TimersOfCurrentPhase)
    /\ [][(phase' # phase) =>
             /\ termTimers = << TermTimer(phase) >>
             /\ termTimers' = << TermTimer(phase') >>]_vars

\* output lines are being appended, the timer of that phase pending
C24_Witness ==
    /\ phase.type = "executing" /\ phase.outputIndex > 0
    /\ termTimers = << TermTimer(phase) >>

\* ---- the transcript
\* the entries one command contributes: its cmd line, then its output lines
CommandEntries(c) ==
    << [type |-> "cmd", content |-> c.cmd] >> \o
    [k \in 1..Len(c.output) |-> [type |-> "output", content |-> c.output[k]]]

RECURSIVE TranscriptUpTo(_)
TranscriptUpTo(n) ==
    IF n = 0 THEN << >>
    ELSE TranscriptUpTo(n - 1) \o CommandEntries(DEMO_COMMANDS[n])

\* what the terminal shows after all commands of DEMO_COMMANDS have run
Transcript == TranscriptUpTo(Len(DEMO_COMMANDS))

\* C25: history is a prefix of the transcript; it changes only by taking the
\* next entry of the transcript, or by being emptied by the timer of the
\* resetting phase when the whole transcript is shown
C25_HistoryIsPrefix ==
    /\ [](/\ Len(history) <= Len(Transcript)
          /\ history = SubSeq(Transcript, 1, Len(history)))
    /\ [][(history' # history) =>
             \/ /\ Len(history) < Len(Transcript)
                /\ history' = Append(history, Transcript[Len(history) + 1])
             \/ /\ history' = << >>
                /\ phase.type = "resetting"
                /\ history = Transcript]_vars

\* the whole transcript is shown and the reset is awaited
C25_Witness == phase.type = "resetting" /\ history = Transcript

\* ---- UpdatesAppMockup
\* C26: at most one progress interval is active
C26_OneInterval == CountKind(updTimers, { "interval" }) <= 1

\* C27: no timer takes state out of "updating" other than to "done" with
\* progress at least 100; state leaves "done" only by a click
C27_UpdatingRunsToDone ==
    [][/\ (updState = "updating" /\ updState' # "updating" /\ UpdTimer) =>
              (updState' = "done" /\ progress >= 100)
       /\ (updState = "done" /\ updState' # "done") => UpdClick]_vars

\* ---- InteractiveDbView
\* the completion timer has published its results
ViewPublished ==
    /\ ~viewIsRunning
    /\ viewResults = mockData
    /\ viewExecutionTime # NullTime

\* C28: isRunning is true exactly when one completion timer is pending,
\* there is never more than one, and every run is followed by isRunning
\* false with the results published
C28_OneQueryInFlight ==
    /\ [](Len(viewTimers) <= 1)
    /\ [](viewIsRunning <=> Len(viewTimers) = 1)
    /\ (viewIsRunning ~> ViewPublished)

\* a second run is in flight over the results of the first
C28_Witness ==
    /\ viewIsRunning
    /\ viewResults = mockData
    /\ viewExecutionTime = NullTime
    /\ Len(viewTimers) = 1 /\ viewTimers[1].rem < ViewRunDelay

\* ---- InteractiveMacropad
\* 0-based indices of the active SCENE buttons
ActiveScenes ==
    { i \in ButtonIndices :
        StartsWith(buttons[i + 1].label, "SCENE") /\ buttons[i + 1].active }

\* a step in which the button at index was pressed: it is shown pressed and
\* a release timer was added
Pressed(index) ==
    pressedIndex' = index /\ Len(padTimers') = Len(padTimers) + 1

\* C29: exactly one SCENE button is active; pressing a SCENE button makes
\* it the only active one, pressing any other button leaves the active
\* SCENE buttons as they are
C29_OneActiveScene ==
    /\ [](Cardinality(ActiveScenes) = 1)
    /\ [][\A index \in ButtonIndices :
             Pressed(index) =>
                 IF StartsWith(buttons[index + 1].label, "SCENE")
                 THEN ActiveScenes' = { index }
                 ELSE ActiveScenes' = ActiveScenes]_vars

\* SCENE 3 was switched to and then LIVE toggled on
C29_Witness ==
    /\ ActiveScenes = { 4 }
    /\ buttons[1].active
    /\ lastAction = Action(<< "LIVE" >>, "ON")

\* ---- StatCard
\* the interval of card c is active
Counting(c) == \E m \in 1..Len(statTimers) : statTimers[m].i = c

\* every card shows its stat.value and its interval is cleared
AllCounted == \A c \in Cards : count[c] = STATS[c] /\ ~Counting(c)

\* C30: the count never exceeds stat.value and never decreases, it shows
\* stat.value exactly when the card is visible and its interval is cleared,
\* from then on it does not change, and once visible every card gets there
C30_CountsUpToValue ==
    /\ [](\A c \in Cards :
             /\ count[c] \in 0..STATS[c]
             /\ count[c] = STATS[c] <=> (isVisible /\ ~Counting(c)))
    /\ [][\A c \in Cards :
             /\ count'[c] >= count[c]
             /\ count[c] = STATS[c] =>
                    (count'[c] = count[c] /\ ~Counting(c)')]_vars
    /\ (isVisible ~> AllCounted)

\* the first card is done, the second is still counting, one below a whole
\* number its exact sum has reached
C30_Witness ==
    /\ count[1] = STATS[1] /\ ~Counting(1)
    /\ Counting(2)
    /\ count[2] > 0
    /\ count[2] * steps < CurrentTimesSteps(2, current[2])

====
